---------------------------- MODULE Spec2Model ----------------------------
(***************************************************************************)
(* A model of cornell::hpc::omp_hash_map (src/src/omp_hash_map.h) and of   *)
(* the capacity planner of omp_hash_set (src/src/omp_hash_set.h).          *)
(*                                                                         *)
(* The container is a vector of bucket chains guarded by an array of       *)
(* segment locks.  Every caller thread runs one public operation at a      *)
(* time; an operation is a sequence of steps, one per lock acquisition or  *)
(* release and one per block of accesses made between two of them.         *)
(***************************************************************************)
EXTENDS Integers, Sequences, FiniteSets, TLC

(***************************************************************************)
(* size_t values that do not fit a 32-bit integer.                         *)
(*                                                                         *)
(* A request handed to the planner is a 64-bit size_t.  It is written here *)
(* as the little-endian sequence of its digits in base b, where b is the   *)
(* planner's division factor: <<d0, d1, d2>> is d0 + d1*b + d2*b^2.  The   *)
(* last digit of a number other than zero is not 0; zero is <<0>>.  In     *)
(* this base "x /= b" drops the lowest digit and "x *= b" prepends a 0.    *)
(***************************************************************************)
RECURSIVE ToWide(_, _)
ToWide(b, n) ==
    IF n < b THEN <<n>> ELSE <<n % b>> \o ToWide(b, n \div b)

RECURSIVE WideLess(_, _)
\* x < y for two digit sequences of the same base
WideLess(x, y) ==
    IF Len(x) # Len(y) THEN Len(x) < Len(y)
    ELSE IF Len(x) = 0 THEN FALSE
    ELSE IF x[Len(x)] # y[Len(y)] THEN x[Len(x)] < y[Len(y)]
    ELSE WideLess(SubSeq(x, 1, Len(x) - 1), SubSeq(y, 1, Len(y) - 1))

WideLeq(x, y) == x = y \/ WideLess(x, y)

\* x / b (integer division by the base)
WideDivBase(x) == IF Len(x) = 1 THEN <<0>> ELSE Tail(x)

\* x * b
WideMulBase(x) == IF x = <<0>> THEN x ELSE <<0>> \o x

\* x * p, for x a power of the base (the only left factors the planner has)
WideMulPower(b, x, p) ==
    IF p = 0 THEN <<0>> ELSE [i \in 1..(Len(x) - 1) |-> 0] \o ToWide(b, p)

\* the value of a digit sequence that fits a 32-bit integer
WideToInt(b, x) ==
    IF Len(x) = 1 THEN x[1] ELSE x[1] + b * x[2]

(***************************************************************************)
(* The capacity planner, get_n_rehashing_buckets, of both variants.        *)
(***************************************************************************)
PRIME_NUMBERS_MAP ==
    << 5, 11, 23, 47, 97, 199, 409, 823,
       1741, 3469, 6949, 14033, 28411, 57557, 116731, 236897,
       480881, 976369, 1982627, 4026031, 8175383, 16601593, 33712729, 68460391,
       139022417, 282312799, 573292817, 1164186217, 2147483647 >>

PRIME_NUMBERS_SET ==
    << 11, 17, 29, 47, 79, 127, 211,
       337, 547, 887, 1433, 2311, 3739, 6053,
       9791, 15858, 25667, 41539, 67213, 104729 >>

DIVISION_FACTOR_MAP == 817504253

DIVISION_FACTOR_SET == 15858

\* how many times the request may be divided: once in the map, a loop of 3 in the set
N_DIVISIONS_MAP == 1

N_DIVISIONS_SET == 3

Variants == {"map", "set"}

PRIME_NUMBERS(variant) ==
    IF variant = "map" THEN PRIME_NUMBERS_MAP ELSE PRIME_NUMBERS_SET

DIVISION_FACTOR(variant) ==
    IF variant = "map" THEN DIVISION_FACTOR_MAP ELSE DIVISION_FACTOR_SET

N_DIVISIONS(variant) ==
    IF variant = "map" THEN N_DIVISIONS_MAP ELSE N_DIVISIONS_SET

N_PRIME_NUMBERS(variant) == Len(PRIME_NUMBERS(variant))

LAST_PRIME_NUMBER(variant) == PRIME_NUMBERS(variant)[N_PRIME_NUMBERS(variant)]

\* remaining_factor > LAST_PRIME_NUMBER
ExceedsLastPrime(variant, x) ==
    WideLess(ToWide(DIVISION_FACTOR(variant), LAST_PRIME_NUMBER(variant)), x)

RECURSIVE DivideRequest(_, _, _)
\* the guarded divisions: [remaining_factor, n_rehashing_buckets] after `rounds` of them
DivideRequest(variant, st, rounds) ==
    IF rounds = 0 THEN st
    ELSE IF ExceedsLastPrime(variant, st.remaining_factor)
         THEN DivideRequest(variant,
                  [remaining_factor |-> WideDivBase(st.remaining_factor),
                   n_rehashing_buckets |-> WideMulBase(st.n_rehashing_buckets)],
                  rounds - 1)
         ELSE DivideRequest(variant, st, rounds - 1)

RECURSIVE LowerBound(_, _, _, _)
\* the binary search: the first index (from 0) in [left, right] whose entry is not
\* below remaining_factor, or right
LowerBound(primes, remaining_factor, left, right) ==
    IF left < right
    THEN LET mid == (left + right) \div 2
         IN  IF primes[mid + 1] < remaining_factor
             THEN LowerBound(primes, remaining_factor, mid + 1, right)
             ELSE LowerBound(primes, remaining_factor, left, mid)
    ELSE left

\* [ok |-> FALSE] stands for throw std::invalid_argument("n_buckets too large")
get_n_rehashing_buckets(variant, n_buckets_in) ==
    LET b == DIVISION_FACTOR(variant)
        st == DivideRequest(variant,
                  [remaining_factor |-> n_buckets_in, n_rehashing_buckets |-> <<1>>],
                  N_DIVISIONS(variant))
    IN  IF ExceedsLastPrime(variant, st.remaining_factor)
        THEN [ok |-> FALSE, n |-> <<0>>]
        ELSE LET left == LowerBound(PRIME_NUMBERS(variant),
                                    WideToInt(b, st.remaining_factor),
                                    0, N_PRIME_NUMBERS(variant) - 1)
             IN  [ok |-> TRUE,
                  n |-> WideMulPower(b, st.n_rehashing_buckets,
                                     PRIME_NUMBERS(variant)[left + 1])]


(***************************************************************************)
(* The container: omp_hash_map<int, int, std::hash<int>>.                  *)
(***************************************************************************)
N_INITIAL_BUCKETS == 5

N_SEGMENTS_PER_THREAD == 7

\* a load factor is the pair <<numerator, denominator>> of a positive rational
DEFAULT_MAX_LOAD_FACTOR == <<1, 1>>

\* ---- bounds of the model
\* the values stored are 1..MaxVal
MaxVal == 2

\* at most MaxFailures calls are given a callback that throws while a lock left by an
\* earlier one is still held
MaxFailures == 1

\* planner requests checked on their own have at most MaxDigits digits in the base
MaxDigits == 5

\* the number of keys inserted under the default load factor: one more than the
\* initial bucket count, so that the table has to grow
NGrowthKeys == 6

\* the number of keys inserted one after the other: one more than the second bucket
\* count, so that the table grows twice
NSeqKeys == 12

\* the keys: 0 and 5 share bucket 0 of the initial table, 0 and 11 share bucket 0 of
\* the table of 11 buckets
Keys == {0, 5, 11}

\* the keys of the concurrent inserts: one more, so that an insert is still in flight
\* when the third key makes the table grow
InsertKeys == Keys \cup {10}

\* the keys of the inserts that fill a fresh container past its bucket count
\* the keys two callers share: 0 and 5 collide in the initial table
SharedKeys == {0, 5}

\* a load factor under which the second key makes the table grow
SharedLoadFactor == <<1, 3>>

\* load factors for set_max_load_factor: a half, and one between 1/6 and 1/5
FineLoadFactors == {<<1, 2>>, <<2, 11>>}

GrowthKeys == 0..(NGrowthKeys - 1)

\* the keys one caller inserts one after the other
SeqKeys == 0..(NSeqKeys - 1)

Values == 1..MaxVal

\* the caller threads; thread ids are also the lock owners, 0 is "not held"
Threads == {1, 2}

LoadFactors == {<<1, 1>>, <<1, 2>>}

\* the reducers of reducer.h handed to map_reduce, and its default values
Reducers == {"sum", "max"}

Defaults == {0, 1}

\* user callbacks (setter, mapper, handler): one that returns and one that throws
Callbacks == {"ok", "throw"}

\* the smallest request the map's planner refuses: (LAST_PRIME_NUMBER + 1) * 817504253
TooLargeRequest == <<0, 512475142, 2>>

\* SIZE_MAX
LargestRequest == <<257487376, 492092332, 27>>

ReserveRequests ==
    {ToWide(DIVISION_FACTOR_MAP, 6), ToWide(DIVISION_FACTOR_MAP, 12), TooLargeRequest,
     LargestRequest}

VARIABLES
    n_keys,                   \* size_t n_keys
    n_buckets,                \* size_t n_buckets
    max_load_factor,          \* double max_load_factor, a rational <<num, den>>
    n_threads,                \* size_t n_threads, omp_get_max_threads() at construction
    buckets,                  \* the vector of chains; buckets[i + 1] is the code's buckets[i]
    segment_locks,            \* segment id -> the thread holding the lock, or 0
    rehashing_segment_locks,  \* the same for the locks of the rehash workers
    rehashing_buckets,        \* the vector rehash fills, <<>> outside a rehash
    pc,                       \* thread -> where it is in its operation
    op,                       \* thread -> the operation it runs
    loc,                      \* thread -> the locals of that operation
    ret,                      \* thread -> what the operation returned or threw
    ub,                       \* an access outside the bucket vector has happened
    callers,                  \* the threads that call operations
    plan,                     \* the planner checked on its own: variant, request, result
    inserted                  \* key -> the value of the one insert issued for it, or 0

vars == <<n_keys, n_buckets, max_load_factor, n_threads, buckets, segment_locks,
          rehashing_segment_locks, rehashing_buckets, pc, op, loc, ret, ub,
          callers, plan, inserted>>

container == <<n_keys, n_buckets, max_load_factor, n_threads, buckets, segment_locks,
               rehashing_segment_locks, rehashing_buckets>>

n_segments == n_threads * N_SEGMENTS_PER_THREAD

\* std::hash<int>
hasher(key) == key

EmptyBuckets(n) == [i \in 1..n |-> <<>>]

NoOp == [name |-> "none", key |-> 0, value |-> 0, fn |-> "ok", m |-> <<0>>]

NoLoc == [n_buckets_snapshot |-> 0, bucket_id |-> 0, request |-> <<0>>,
          n_rehashing_buckets |-> 0, i |-> 0, first |-> "none", seen |-> 0,
          visited |-> {}, thread_reduced_values |-> <<>>, calls |-> <<>>]

NoRet == [kind |-> "none", value |-> 0]

NoPlan == [variant |-> "map", request |-> <<0>>, state |-> "off", ok |-> FALSE,
           n |-> <<0>>]

\* the constructor, omp_get_max_threads() being nt; cs are the threads that will call
Constructed(nt, cs) ==
    /\ n_keys = 0
    /\ n_buckets = N_INITIAL_BUCKETS
    /\ buckets = EmptyBuckets(N_INITIAL_BUCKETS)
    /\ max_load_factor = DEFAULT_MAX_LOAD_FACTOR
    /\ n_threads = nt
    /\ segment_locks = [s \in 0..(nt * N_SEGMENTS_PER_THREAD - 1) |-> 0]
    /\ rehashing_segment_locks = [s \in 0..(nt * N_SEGMENTS_PER_THREAD - 1) |-> 0]
    /\ rehashing_buckets = <<>>
    /\ pc = [t \in Threads |-> "idle"]
    /\ op = [t \in Threads |-> NoOp]
    /\ loc = [t \in Threads |-> NoLoc]
    /\ ret = [t \in Threads |-> NoRet]
    /\ ub = FALSE
    /\ callers = cs
    /\ inserted = [k \in InsertKeys \cup GrowthKeys \cup SeqKeys |-> 0]

Init ==
    /\ Constructed(1, {1})
    /\ plan = NoPlan

\* 2^64 in the base of each planner: a request is a size_t
SizeLimit(variant) ==
    IF variant = "map" THEN <<257487377, 492092332, 27>>
    ELSE <<9322, 10505, 3917, 10990, 291>>

\* the digits requests are made of: those around the first table entry and around the
\* digits of the last one, the smallest and the largest
PlannerDigits(variant) ==
    LET b == DIVISION_FACTOR(variant)
        last == ToWide(b, LAST_PRIME_NUMBER(variant))
    IN  {0, 1, PRIME_NUMBERS(variant)[1], PRIME_NUMBERS(variant)[1] + 1,
         last[1], last[1] + 1, last[2], last[2] + 1, b - 1}

\* a request is a size_t, written without leading zero digits
ValidRequest(variant, x) ==
    /\ Len(x) = 1 \/ x[Len(x)] # 0
    /\ WideLess(x, SizeLimit(variant))

InitPlanner ==
    /\ Constructed(1, {})
    /\ \E v \in Variants, n \in 1..MaxDigits :
           \E x \in [1..n -> PlannerDigits(v)] :
               /\ ValidRequest(v, x)
               /\ plan = [NoPlan EXCEPT !.variant = v, !.request = x,
                                        !.state = "requested"]

(***************************************************************************)
(* Chains.  A chain is the sequence of its nodes from the bucket's head;   *)
(* slot p of a chain is the unique_ptr that owns node p, and slot          *)
(* Len(chain) + 1 is the empty unique_ptr at its end.                      *)
(***************************************************************************)
RECURSIVE hash_node_apply_recursive(_, _, _)
\* the slot the handler is applied to: the first node from slot `node` on that has
\* the key, or the empty slot at the end
hash_node_apply_recursive(chain, node, key) ==
    IF node <= Len(chain)
    THEN IF chain[node].key = key
         THEN node
         ELSE hash_node_apply_recursive(chain, node + 1, key)
    ELSE node

RemoveAt(chain, slot) ==
    SubSeq(chain, 1, slot - 1) \o SubSeq(chain, slot + 1, Len(chain))

\* the user callbacks that return: the tests' increase_by_one and cubic
setter(value) == value + 1

mapper(value) == value * value * value

\* `V value;` of the two-argument set leaves an int indeterminate; the range keeps the
\* setter's result among the values of the model
DefaultInitialized == 0..(MaxVal - 1)

Void == [kind |-> "void", value |-> 0]

HandlerFailure == [kind |-> "handler_failure", value |-> 0]

CapacityExceeded == [kind |-> "invalid_argument", value |-> 0]

Kept(chain, r) == [chain |-> chain, dkeys |-> 0, ret |-> r, threw |-> FALSE]

Thrown(chain) == [chain |-> chain, dkeys |-> 0, ret |-> HandlerFailure, threw |-> TRUE]

\* a handler of set(key, value) that links a new node whatever it is handed
set_handler_always_links(o, chain, slot) ==
    [chain |-> Append(chain, [key |-> o.key, value |-> o.value]),
     dkeys |-> 1, ret |-> Void, threw |-> FALSE]

\* node_handler of set(key, value)
set_handler(o, chain, slot) ==
    IF slot > Len(chain)
    THEN [chain |-> Append(chain, [key |-> o.key, value |-> o.value]),
          dkeys |-> 1, ret |-> Void, threw |-> FALSE]
    ELSE Kept([chain EXCEPT ![slot].value = o.value], Void)

\* node_handler of set(key, setter) and of set(key, setter, default_value), `initial`
\* being the value the new node's value starts from
setter_handler(o, chain, slot, initial) ==
    IF o.fn = "throw" THEN Thrown(chain)
    ELSE IF slot > Len(chain)
    THEN [chain |-> Append(chain, [key |-> o.key, value |-> setter(initial)]),
          dkeys |-> 1, ret |-> Void, threw |-> FALSE]
    ELSE Kept([chain EXCEPT ![slot].value = setter(@)], Void)

\* node_handler of unset
\* a handler of unset that counts a removal also when it is handed the empty slot
unset_handler_always_counts(o, chain, slot) ==
    IF slot <= Len(chain)
    THEN [chain |-> RemoveAt(chain, slot), dkeys |-> -1, ret |-> Void, threw |-> FALSE]
    ELSE [chain |-> chain, dkeys |-> -1, ret |-> Void, threw |-> FALSE]

unset_handler(o, chain, slot) ==
    IF slot <= Len(chain)
    THEN [chain |-> RemoveAt(chain, slot), dkeys |-> -1, ret |-> Void, threw |-> FALSE]
    ELSE Kept(chain, Void)

\* a handler of has that links a default node into the empty slot it is handed
has_handler_linking(o, chain, slot) ==
    IF slot <= Len(chain)
    THEN Kept(chain, [kind |-> "bool", value |-> 1])
    ELSE [chain |-> Append(chain, [key |-> o.key, value |-> 1]),
          dkeys |-> 1, ret |-> [kind |-> "bool", value |-> 0], threw |-> FALSE]

\* node_handler of has
has_handler(o, chain, slot) ==
    Kept(chain, [kind |-> "bool", value |-> IF slot <= Len(chain) THEN 1 ELSE 0])

\* node_handler of get_copy_or_default
get_handler(o, chain, slot) ==
    Kept(chain, [kind |-> "value",
                 value |-> IF slot <= Len(chain) THEN chain[slot].value ELSE o.value])

\* node_handler of map
map_handler(o, chain, slot) ==
    IF slot <= Len(chain)
    THEN IF o.fn = "throw" THEN Thrown(chain)
         ELSE Kept(chain, [kind |-> "value", value |-> mapper(chain[slot].value)])
    ELSE Kept(chain, [kind |-> "value", value |-> o.value])

\* node_handler of apply(key, handler): the value the user's handler was given
apply_handler(o, chain, slot) ==
    IF slot <= Len(chain)
    THEN IF o.fn = "throw" THEN Thrown(chain)
         ELSE Kept(chain, [kind |-> "applied", value |-> chain[slot].value])
    ELSE Kept(chain, Void)

node_handler(o, chain, slot, indeterminate) ==
    CASE o.name = "set" -> set_handler(o, chain, slot)
      [] o.name = "set_setter" -> setter_handler(o, chain, slot, indeterminate)
      [] o.name = "set_setter_default" -> setter_handler(o, chain, slot, o.value)
      [] o.name = "unset" -> unset_handler(o, chain, slot)
      [] o.name = "has" -> has_handler(o, chain, slot)
      [] o.name = "get_copy_or_default" -> get_handler(o, chain, slot)
      [] o.name = "map" -> map_handler(o, chain, slot)
      [] OTHER -> apply_handler(o, chain, slot)

\* the values `V value;` may hold when the handler of o reads it
Indeterminate(o, chain, slot) ==
    IF o.name = "set_setter" /\ o.fn = "ok" /\ slot > Len(chain)
    THEN DefaultInitialized ELSE {0}

SetOps == {"set", "set_setter", "set_setter_default"}

\* the operations that go through hash_node_apply(node_handler)
BulkOps == {"map_reduce", "apply_all"}

\* the value stored for key anywhere in the table, 0 when there is none
Stored(key) ==
    LET hits == {<<i, p>> \in (1..Len(buckets)) \X (1..Cardinality(Keys)) :
                    p <= Len(buckets[i]) /\ buckets[i][p].key = key}
    IN  IF hits = {} THEN 0
        ELSE LET h == CHOOSE h \in hits : TRUE IN buckets[h[1]][h[2]].value

(***************************************************************************)
(* The public operations: a call by an idle thread.                        *)
(***************************************************************************)
Call(t, o, first, l) ==
    /\ ~ub
    /\ t \in callers
    /\ pc[t] = "idle"
    /\ pc' = [pc EXCEPT ![t] = first]
    /\ op' = [op EXCEPT ![t] = o]
    /\ loc' = [loc EXCEPT ![t] = l]
    /\ ret' = [ret EXCEPT ![t] = NoRet]
    /\ UNCHANGED <<container, ub, callers, plan, inserted>>

\* the segment locks held by a thread that is in no operation
LeakedLocks == {s \in DOMAIN segment_locks :
                   segment_locks[s] # 0 /\ pc[segment_locks[s]] \in {"idle", "done"}}

\* a callback that returns may be passed at any time, one that throws within the bound
Passable(fn) == fn = "throw" => Cardinality(LeakedLocks) < MaxFailures

\* the operation has returned or thrown: the caller is back in its own code
return(t) ==
    /\ ~ub
    /\ pc[t] = "done"
    /\ pc' = [pc EXCEPT ![t] = "idle"]
    /\ op' = [op EXCEPT ![t] = NoOp]
    /\ loc' = [loc EXCEPT ![t] = NoLoc]
    /\ ret' = [ret EXCEPT ![t] = NoRet]
    /\ UNCHANGED <<container, ub, callers, plan, inserted>>

set(t, key, value) ==
    Call(t, [NoOp EXCEPT !.name = "set", !.key = key, !.value = value], "snapshot", NoLoc)

\* the setter is called only where its result is a value of the model
set_setter(t, key, fn) ==
    /\ Passable(fn)
    /\ fn = "ok" => Stored(key) < MaxVal
    /\ Call(t, [NoOp EXCEPT !.name = "set_setter", !.key = key, !.fn = fn],
            "snapshot", NoLoc)

set_setter_default(t, key, fn, default_value) ==
    /\ Passable(fn)
    /\ fn = "ok" => Stored(key) < MaxVal
    /\ Call(t, [NoOp EXCEPT !.name = "set_setter_default", !.key = key, !.fn = fn,
                            !.value = default_value], "snapshot", NoLoc)

unset(t, key) ==
    Call(t, [NoOp EXCEPT !.name = "unset", !.key = key], "snapshot", NoLoc)

has(t, key) ==
    Call(t, [NoOp EXCEPT !.name = "has", !.key = key], "snapshot", NoLoc)

get_copy_or_default(t, key, default_value) ==
    Call(t, [NoOp EXCEPT !.name = "get_copy_or_default", !.key = key,
                         !.value = default_value], "snapshot", NoLoc)

map(t, key, fn, default_value) ==
    /\ Passable(fn)
    /\ Call(t, [NoOp EXCEPT !.name = "map", !.key = key, !.fn = fn,
                         !.value = default_value], "snapshot", NoLoc)

apply(t, key, fn) ==
    /\ Passable(fn)
    /\ Call(t, [NoOp EXCEPT !.name = "apply", !.key = key, !.fn = fn], "snapshot", NoLoc)

reserve(t, m) ==
    Call(t, [NoOp EXCEPT !.name = "reserve", !.m = m], "reserve",
         [NoLoc EXCEPT !.request = m])

clear(t) ==
    Call(t, [NoOp EXCEPT !.name = "clear"], "lock_all", NoLoc)

set_max_load_factor(t, f) ==
    /\ ~ub
    /\ t \in callers
    /\ pc[t] = "idle"
    /\ f # max_load_factor
    /\ max_load_factor' = f
    /\ UNCHANGED <<n_keys, n_buckets, n_threads, buckets, segment_locks,
                   rehashing_segment_locks, rehashing_buckets, pc, op, loc, ret, ub,
                   callers, plan, inserted>>

\* the value each key is inserted with: keys that share a chain get different ones
ValueOf(key) == (key % MaxVal) + 1

\* set(key, value) for a key no insert was issued for yet
insert_once(t, key, value) ==
    /\ ~ub
    /\ t \in callers
    /\ pc[t] = "idle"
    /\ inserted[key] = 0
    /\ inserted' = [inserted EXCEPT ![key] = value]
    /\ pc' = [pc EXCEPT ![t] = "snapshot"]
    /\ op' = [op EXCEPT ![t] = [NoOp EXCEPT !.name = "set", !.key = key,
                                            !.value = value]]
    /\ loc' = [loc EXCEPT ![t] = NoLoc]
    /\ ret' = [ret EXCEPT ![t] = NoRet]
    /\ UNCHANGED <<container, ub, callers, plan>>

\* set_max_load_factor before the workers start
configure(t, f) ==
    /\ \A k \in InsertKeys : inserted[k] = 0
    /\ set_max_load_factor(t, f)

\* every insert issued has returned
AllReturned == \A u \in callers : pc[u] = "idle"

\* has(key) and get_copy_or_default(key, default_value) once the inserts have returned,
\* for a key that was inserted
has_inserted(t, key) ==
    /\ AllReturned
    /\ inserted[key] # 0
    /\ has(t, key)

get_inserted(t, key, default_value) ==
    /\ AllReturned
    /\ inserted[key] # 0
    /\ get_copy_or_default(t, key, default_value)

(***************************************************************************)
(* hash_node_apply(key, node_handler): the point access.                   *)
(***************************************************************************)
\* n_buckets_snapshot = n_buckets; bucket_id = hash_value % n_buckets_snapshot
hash_node_apply_snapshot(t) ==
    /\ ~ub
    /\ pc[t] = "snapshot"
    /\ loc' = [loc EXCEPT ![t].n_buckets_snapshot = n_buckets,
                          ![t].bucket_id = hasher(op[t].key) % n_buckets]
    /\ pc' = [pc EXCEPT ![t] = "set_lock"]
    /\ UNCHANGED <<container, op, ret, ub, callers, plan, inserted>>

\* the point access going on without waiting for the segment lock
hash_node_apply_set_lock_unheld(t) ==
    /\ ~ub
    /\ pc[t] = "set_lock"
    /\ segment_locks' = [segment_locks EXCEPT ![loc[t].bucket_id % n_segments] = t]
    /\ pc' = [pc EXCEPT ![t] = "locked"]
    /\ UNCHANGED <<n_keys, n_buckets, max_load_factor, n_threads, buckets,
                   rehashing_segment_locks, rehashing_buckets, op, loc, ret, ub,
                   callers, plan, inserted>>

\* omp_set_lock(&segment_locks[bucket_id % n_segments]): blocks while the lock is held,
\* also when the caller itself holds it (a simple lock)
hash_node_apply_set_lock(t) ==
    /\ ~ub
    /\ pc[t] = "set_lock"
    /\ segment_locks[loc[t].bucket_id % n_segments] = 0
    /\ segment_locks' = [segment_locks EXCEPT ![loc[t].bucket_id % n_segments] = t]
    /\ pc' = [pc EXCEPT ![t] = "locked"]
    /\ UNCHANGED <<n_keys, n_buckets, max_load_factor, n_threads, buckets,
                   rehashing_segment_locks, rehashing_buckets, op, loc, ret, ub,
                   callers, plan, inserted>>

\* What reading buckets[bucket_id] outside the vector may give the handler: the
\* hardened library aborts; otherwise the storage past the vector's end holds what a
\* destroyed unique_ptr left, an empty slot or a pointer to a freed node.
OutOfRangeOutcomes(o) ==
    {[kind |-> "abort", value |-> 0]}
    \cup {node_handler(o, <<>>, 1, i).ret : i \in Indeterminate(o, <<>>, 1)}
    \cup {node_handler(o, <<[key |-> o.key, value |-> v]>>, 1, 0).ret : v \in Values}

\* hash_node_apply without the second look at n_buckets after the lock is taken
hash_node_apply_locked_unchecked(t) ==
    /\ ~ub
    /\ pc[t] = "locked"
    /\ loc[t].bucket_id < Len(buckets)
    /\ LET chain == buckets[loc[t].bucket_id + 1]
           slot == hash_node_apply_recursive(chain, 1, op[t].key)
           h == node_handler(op[t], chain, slot, 0)
       IN  /\ buckets' = [buckets EXCEPT ![loc[t].bucket_id + 1] = h.chain]
           /\ n_keys' = n_keys + h.dkeys
           /\ ret' = [ret EXCEPT ![t] = h.ret]
           /\ pc' = [pc EXCEPT ![t] = IF h.threw THEN "done" ELSE "unset_lock"]
    /\ UNCHANGED <<n_buckets, max_load_factor, n_threads, segment_locks,
                   rehashing_segment_locks, rehashing_buckets, op, loc, ub, callers,
                   plan, inserted>>

\* under the lock: the check of the snapshot, then hash_node_apply_recursive on the
\* bucket with the operation's handler.  A handler that throws leaves hash_node_apply
\* by the exception, past omp_unset_lock.
hash_node_apply_locked(t) ==
    /\ ~ub
    /\ pc[t] = "locked"
    /\ IF loc[t].n_buckets_snapshot # n_buckets
       THEN /\ segment_locks' =
                   [segment_locks EXCEPT ![loc[t].bucket_id % n_segments] = 0]
            /\ pc' = [pc EXCEPT ![t] = "snapshot"]
            /\ UNCHANGED <<n_keys, buckets, ret, ub>>
       ELSE IF loc[t].bucket_id >= Len(buckets)
       THEN /\ ub' = TRUE
            /\ \E r \in OutOfRangeOutcomes(op[t]) : ret' = [ret EXCEPT ![t] = r]
            /\ pc' = [pc EXCEPT ![t] = "undefined"]
            /\ UNCHANGED <<n_keys, buckets, segment_locks>>
       ELSE LET chain == buckets[loc[t].bucket_id + 1]
                slot == hash_node_apply_recursive(chain, 1, op[t].key)
            IN  \E i \in Indeterminate(op[t], chain, slot) :
                    LET h == node_handler(op[t], chain, slot, i)
                    IN  /\ buckets' = [buckets EXCEPT ![loc[t].bucket_id + 1] = h.chain]
                        /\ n_keys' = n_keys + h.dkeys
                        /\ ret' = [ret EXCEPT ![t] = h.ret]
                        /\ pc' = [pc EXCEPT ![t] =
                                     IF h.threw THEN "done" ELSE "unset_lock"]
                        /\ UNCHANGED <<segment_locks, ub>>
    /\ UNCHANGED <<n_buckets, max_load_factor, n_threads, rehashing_segment_locks,
                   rehashing_buckets, op, loc, callers, plan, inserted>>

\* omp_unset_lock(&lock); applied = true.  The set operations go on to the load check.
hash_node_apply_unset_lock(t) ==
    /\ ~ub
    /\ pc[t] = "unset_lock"
    /\ segment_locks' = [segment_locks EXCEPT ![loc[t].bucket_id % n_segments] = 0]
    /\ pc' = [pc EXCEPT ![t] = IF op[t].name \in SetOps THEN "load_check" ELSE "done"]
    /\ UNCHANGED <<n_keys, n_buckets, max_load_factor, n_threads, buckets,
                   rehashing_segment_locks, rehashing_buckets, op, loc, ret, ub,
                   callers, plan, inserted>>

(***************************************************************************)
(* if (n_keys >= n_buckets * max_load_factor) rehash();                    *)
(* The two counters are read without a lock, in either order.              *)
(***************************************************************************)
load_factor_read(t) ==
    /\ ~ub
    /\ pc[t] = "load_check"
    /\ \E first \in {"n_keys", "n_buckets"} :
           loc' = [loc EXCEPT ![t].first = first,
                              ![t].seen = IF first = "n_keys" THEN n_keys ELSE n_buckets]
    /\ pc' = [pc EXCEPT ![t] = "load_test"]
    /\ UNCHANGED <<container, op, ret, ub, callers, plan, inserted>>

\* the growth check with the comparison turned around
load_factor_test_inverted(t) ==
    /\ ~ub
    /\ pc[t] = "load_test"
    /\ LET keys == IF loc[t].first = "n_keys" THEN loc[t].seen ELSE n_keys
           bkts == IF loc[t].first = "n_keys" THEN n_buckets ELSE loc[t].seen
       IN  pc' = [pc EXCEPT ![t] =
                     IF keys * max_load_factor[2] <= bkts * max_load_factor[1]
                     THEN "rehash" ELSE "done"]
    /\ UNCHANGED <<container, op, loc, ret, ub, callers, plan, inserted>>

load_factor_test(t) ==
    /\ ~ub
    /\ pc[t] = "load_test"
    /\ LET keys == IF loc[t].first = "n_keys" THEN loc[t].seen ELSE n_keys
           bkts == IF loc[t].first = "n_keys" THEN n_buckets ELSE loc[t].seen
       IN  pc' = [pc EXCEPT ![t] =
                     IF keys * max_load_factor[2] >= bkts * max_load_factor[1]
                     THEN "rehash" ELSE "done"]
    /\ UNCHANGED <<container, op, loc, ret, ub, callers, plan, inserted>>

\* rehash() { reserve(n_keys / max_load_factor); }: the quotient, a double, is
\* truncated to the size_t argument
rehash_request(t) ==
    /\ ~ub
    /\ pc[t] = "rehash"
    /\ loc' = [loc EXCEPT ![t].request =
                  ToWide(DIVISION_FACTOR_MAP,
                         (n_keys * max_load_factor[2]) \div max_load_factor[1])]
    /\ pc' = [pc EXCEPT ![t] = "reserve"]
    /\ UNCHANGED <<container, op, ret, ub, callers, plan, inserted>>

\* reserve taking the request itself for the new bucket count
reserve_plan_unplanned(t) ==
    /\ ~ub
    /\ pc[t] = "reserve"
    /\ loc' = [loc EXCEPT ![t].n_rehashing_buckets =
                              WideToInt(DIVISION_FACTOR_MAP, loc[t].request),
                          ![t].i = 0]
    /\ pc' = [pc EXCEPT ![t] = "lock_all"]
    /\ UNCHANGED <<container, op, ret, ub, callers, plan, inserted>>

\* reserve with the planner called after lock_all_segments: a throw leaves the locks
reserve_plan_locks_first(t) ==
    /\ ~ub
    /\ pc[t] = "reserve"
    /\ \A s \in DOMAIN segment_locks : segment_locks[s] = 0
    /\ LET r == get_n_rehashing_buckets("map", loc[t].request)
       IN  IF r.ok
           THEN /\ loc' = [loc EXCEPT ![t].n_rehashing_buckets =
                                          WideToInt(DIVISION_FACTOR_MAP, r.n),
                                      ![t].i = 0]
                /\ pc' = [pc EXCEPT ![t] = "lock_all"]
                /\ UNCHANGED <<ret, segment_locks>>
           ELSE /\ pc' = [pc EXCEPT ![t] = "done"]
                /\ ret' = [ret EXCEPT ![t] = CapacityExceeded]
                /\ segment_locks' = [s \in DOMAIN segment_locks |-> t]
                /\ UNCHANGED loc
    /\ UNCHANGED <<n_keys, n_buckets, max_load_factor, n_threads, buckets,
                   rehashing_segment_locks, rehashing_buckets, op, ub, callers, plan,
                   inserted>>

\* reserve(n_buckets): the planner's call, which may throw, before rehash(n) starts
reserve_plan(t) ==
    /\ ~ub
    /\ pc[t] = "reserve"
    /\ LET r == get_n_rehashing_buckets("map", loc[t].request)
       IN  IF r.ok
           THEN /\ loc' = [loc EXCEPT ![t].n_rehashing_buckets =
                                          WideToInt(DIVISION_FACTOR_MAP, r.n),
                                      ![t].i = 0]
                /\ pc' = [pc EXCEPT ![t] = "lock_all"]
                /\ UNCHANGED ret
           ELSE /\ pc' = [pc EXCEPT ![t] = "done"]
                /\ ret' = [ret EXCEPT ![t] = CapacityExceeded]
                /\ UNCHANGED loc
    /\ UNCHANGED <<container, op, ub, callers, plan, inserted>>

(***************************************************************************)
(* lock_all_segments and unlock_all_segments: one lock per step, in index  *)
(* order.                                                                  *)
(***************************************************************************)
lock_all_segments(t) ==
    /\ ~ub
    /\ pc[t] = "lock_all"
    /\ segment_locks[loc[t].i] = 0
    /\ segment_locks' = [segment_locks EXCEPT ![loc[t].i] = t]
    /\ IF loc[t].i + 1 < n_segments
       THEN /\ loc' = [loc EXCEPT ![t].i = @ + 1]
            /\ UNCHANGED pc
       ELSE /\ loc' = [loc EXCEPT ![t].i = 0]
            /\ pc' = [pc EXCEPT ![t] =
                         CASE op[t].name = "clear" -> "clear_locked"
                           [] op[t].name \in BulkOps -> "bulk_locked"
                           [] OTHER -> "rehash_locked"]
    /\ UNCHANGED <<n_keys, n_buckets, max_load_factor, n_threads, buckets,
                   rehashing_segment_locks, rehashing_buckets, op, ret, ub, callers,
                   plan, inserted>>

unlock_all_segments(t) ==
    /\ ~ub
    /\ pc[t] = "unlock_all"
    /\ segment_locks' = [segment_locks EXCEPT ![loc[t].i] = 0]
    /\ IF loc[t].i + 1 < n_segments
       THEN /\ loc' = [loc EXCEPT ![t].i = @ + 1]
            /\ UNCHANGED <<pc, ret>>
       ELSE /\ loc' = [loc EXCEPT ![t].i = 0]
            /\ IF op[t].name = "map_reduce"
               THEN /\ pc' = [pc EXCEPT ![t] = "reduce"]
                    /\ UNCHANGED ret
               ELSE /\ pc' = [pc EXCEPT ![t] = "done"]
                    /\ ret' = [ret EXCEPT ![t] = Void]
    /\ UNCHANGED <<n_keys, n_buckets, max_load_factor, n_threads, buckets,
                   rehashing_segment_locks, rehashing_buckets, op, ub, callers, plan,
                   inserted>>

(***************************************************************************)
(* rehash(n_rehashing_buckets), all the segment locks held.                *)
(***************************************************************************)
\* rehash(n) without the check against a decrease
rehash_locked_unchecked(t) ==
    /\ ~ub
    /\ pc[t] = "rehash_locked"
    /\ n_buckets <= Len(buckets)
    /\ rehashing_buckets' = EmptyBuckets(loc[t].n_rehashing_buckets)
    /\ pc' = [pc EXCEPT ![t] = "rehash_move"]
    /\ UNCHANGED <<n_keys, n_buckets, max_load_factor, n_threads, buckets, segment_locks,
                   rehashing_segment_locks, op, loc, ret, ub, callers, plan, inserted>>

\* the check against a decrease, then the new vector.  The loop that follows reads
\* buckets[i] for every i < n_buckets: past the vector's end when n_buckets is larger
\* than the vector.
rehash_locked(t) ==
    /\ ~ub
    /\ pc[t] = "rehash_locked"
    /\ IF n_buckets >= loc[t].n_rehashing_buckets
       THEN /\ pc' = [pc EXCEPT ![t] = "unlock_all"]
            /\ UNCHANGED <<rehashing_buckets, ub, ret>>
       ELSE IF n_buckets > Len(buckets)
       THEN /\ ub' = TRUE
            /\ pc' = [pc EXCEPT ![t] = "undefined"]
            /\ ret' = [ret EXCEPT ![t] = [kind |-> "abort", value |-> 0]]
            /\ UNCHANGED rehashing_buckets
       ELSE /\ rehashing_buckets' = EmptyBuckets(loc[t].n_rehashing_buckets)
            /\ pc' = [pc EXCEPT ![t] = "rehash_move"]
            /\ UNCHANGED <<ub, ret>>
    /\ UNCHANGED <<n_keys, n_buckets, max_load_factor, n_threads, buckets, segment_locks,
                   rehashing_segment_locks, op, loc, callers, plan, inserted>>

\* node_handler of rehash on the last node left in old bucket i (the traversal is
\* post-order): under the rehashing lock of the new bucket's segment the node is moved
\* to the slot hash_node_apply_recursive finds in the new chain, and its next is reset.
\* The workers of the parallel loop interleave node by node; a team of one worker
\* runs the iterations in index order.
\* the move of a node to the bucket its hash has in the old vector
rehash_move_old_index(t, i) ==
    /\ ~ub
    /\ pc[t] = "rehash_move"
    /\ i \in 1..Len(buckets)
    /\ buckets[i] # <<>>
    /\ n_threads = 1 => \A j \in 1..(i - 1) : buckets[j] = <<>>
    /\ LET node == buckets[i][Len(buckets[i])]
           bucket_id == hasher(node.key) % n_buckets
           chain == rehashing_buckets[bucket_id + 1]
           slot == hash_node_apply_recursive(chain, 1, node.key)
       IN  /\ rehashing_segment_locks[bucket_id % n_segments] = 0
           /\ rehashing_buckets' =
                  [rehashing_buckets EXCEPT ![bucket_id + 1] =
                      Append(SubSeq(chain, 1, slot - 1), node)]
           /\ buckets' = [buckets EXCEPT ![i] = SubSeq(@, 1, Len(@) - 1)]
    /\ UNCHANGED <<n_keys, n_buckets, max_load_factor, n_threads, segment_locks,
                   rehashing_segment_locks, pc, op, loc, ret, ub, callers, plan,
                   inserted>>

rehash_move(t, i) ==
    /\ ~ub
    /\ pc[t] = "rehash_move"
    /\ i \in 1..Len(buckets)
    /\ buckets[i] # <<>>
    /\ n_threads = 1 => \A j \in 1..(i - 1) : buckets[j] = <<>>
    /\ LET node == buckets[i][Len(buckets[i])]
           bucket_id == hasher(node.key) % loc[t].n_rehashing_buckets
           chain == rehashing_buckets[bucket_id + 1]
           slot == hash_node_apply_recursive(chain, 1, node.key)
       IN  /\ rehashing_segment_locks[bucket_id % n_segments] = 0
           /\ rehashing_buckets' =
                  [rehashing_buckets EXCEPT ![bucket_id + 1] =
                      Append(SubSeq(chain, 1, slot - 1), node)]
           /\ buckets' = [buckets EXCEPT ![i] = SubSeq(@, 1, Len(@) - 1)]
    /\ UNCHANGED <<n_keys, n_buckets, max_load_factor, n_threads, segment_locks,
                   rehashing_segment_locks, pc, op, loc, ret, ub, callers, plan,
                   inserted>>

\* buckets = std::move(rehashing_buckets); n_buckets = n_rehashing_buckets
rehash_install(t) ==
    /\ ~ub
    /\ pc[t] = "rehash_move"
    /\ \A i \in 1..Len(buckets) : buckets[i] = <<>>
    /\ buckets' = rehashing_buckets
    /\ rehashing_buckets' = <<>>
    /\ n_buckets' = loc[t].n_rehashing_buckets
    /\ pc' = [pc EXCEPT ![t] = "unlock_all"]
    /\ UNCHANGED <<n_keys, max_load_factor, n_threads, segment_locks,
                   rehashing_segment_locks, op, loc, ret, ub, callers, plan, inserted>>

(***************************************************************************)
(* hash_node_apply(node_handler): the bulk traversal of map_reduce and of  *)
(* apply(handler), all the segment locks held.                             *)
(***************************************************************************)
\* reducer::sum, reducer::max, reducer::min applied to (t1, t2): the new t1
reducer(fn, t1, t2) ==
    CASE fn = "sum" -> t1 + t2
      [] fn = "max" -> IF t1 < t2 THEN t2 ELSE t1
      [] OTHER -> IF t1 > t2 THEN t2 ELSE t1

\* the mapper handed to map_reduce: the entry's value
value_mapper(key, value) == value

RECURSIVE reduce_chain(_, _, _)
\* hash_node_apply_recursive(node, node_handler) with the handler of map_reduce: the
\* nodes of the chain are reduced into acc from the last one to the first
reduce_chain(fn, chain, acc) ==
    IF chain = <<>> THEN acc
    ELSE reduce_chain(fn, SubSeq(chain, 1, Len(chain) - 1),
                      reducer(fn, acc, value_mapper(chain[Len(chain)].key,
                                                    chain[Len(chain)].value)))

RECURSIVE visit_chain(_)
\* the same traversal with the handler of apply(handler): the keys in the order the
\* user's handler is given them
visit_chain(chain) ==
    IF chain = <<>> THEN <<>>
    ELSE <<chain[Len(chain)].key>> \o visit_chain(SubSeq(chain, 1, Len(chain) - 1))

RECURSIVE reduce_values(_, _, _)
\* for (const auto& value : thread_reduced_values) reducer(reduced_value, value)
reduce_values(fn, values, reduced_value) ==
    IF values = <<>> THEN reduced_value
    ELSE reduce_values(fn, Tail(values), reducer(fn, reduced_value, Head(values)))

\* thread_reduced_values(n_threads, default_value); hash_node_apply(node_handler)
map_reduce(t, fn, default_value) ==
    Call(t, [NoOp EXCEPT !.name = "map_reduce", !.fn = fn, !.value = default_value],
         "lock_all",
         [NoLoc EXCEPT !.thread_reduced_values = [w \in 1..n_threads |-> default_value]])

apply_all(t) ==
    Call(t, [NoOp EXCEPT !.name = "apply_all"], "lock_all", NoLoc)

\* one iteration of the parallel loop that finds a chain: bucket i (from 1) is walked
\* by the worker whose omp_get_thread_num() is w.  An iteration on an empty bucket
\* calls no handler.
bulk_visit(t, i, w) ==
    /\ ~ub
    /\ pc[t] = "bulk_locked"
    /\ i \in 1..Len(buckets)
    /\ i <= n_buckets
    /\ i \notin loc[t].visited
    /\ buckets[i] # <<>>
    /\ w \in 0..(n_threads - 1)
    /\ loc' = [loc EXCEPT
                  ![t].visited = @ \cup {i},
                  ![t].thread_reduced_values =
                      IF op[t].name = "map_reduce"
                      THEN [@ EXCEPT ![w + 1] = reduce_chain(op[t].fn, buckets[i], @)]
                      ELSE @,
                  ![t].calls =
                      IF op[t].name = "apply_all" THEN @ \o visit_chain(buckets[i])
                      ELSE @]
    /\ UNCHANGED <<container, pc, op, ret, ub, callers, plan, inserted>>

\* the loop has run for every i < n_buckets: past the vector when n_buckets is larger
\* than it
bulk_end(t) ==
    /\ ~ub
    /\ pc[t] = "bulk_locked"
    /\ \A i \in 1..Len(buckets) :
           (i <= n_buckets /\ buckets[i] # <<>>) => i \in loc[t].visited
    /\ IF n_buckets > Len(buckets)
       THEN /\ ub' = TRUE
            /\ pc' = [pc EXCEPT ![t] = "undefined"]
            /\ ret' = [ret EXCEPT ![t] = [kind |-> "abort", value |-> 0]]
       ELSE /\ pc' = [pc EXCEPT ![t] = "unlock_all"]
            /\ UNCHANGED <<ub, ret>>
    /\ UNCHANGED <<container, op, loc, callers, plan, inserted>>

\* the serial fold of map_reduce, seeded with default_value, and its return
map_reduce_return(t) ==
    /\ ~ub
    /\ pc[t] = "reduce"
    /\ ret' = [ret EXCEPT ![t] =
                  [kind |-> "value",
                   value |-> reduce_values(op[t].fn, loc[t].thread_reduced_values,
                                           op[t].value)]]
    /\ pc' = [pc EXCEPT ![t] = "done"]
    /\ UNCHANGED <<container, op, loc, ub, callers, plan, inserted>>

\* the steps of a bulk traversal
BulkSteps(t) ==
    \/ \E i \in 1..Len(buckets), w \in 0..(n_threads - 1) : bulk_visit(t, i, w)
    \/ bulk_end(t)
    \/ map_reduce_return(t)

(***************************************************************************)
(* clear(), all the segment locks held.                                    *)
(***************************************************************************)
\* std::vector::resize
Resize(v, n) ==
    IF Len(v) >= n THEN SubSeq(v, 1, n) ELSE v \o EmptyBuckets(n - Len(v))

\* buckets.resize(N_INITIAL_BUCKETS); every bucket reset; n_keys = 0
clear_locked(t) ==
    /\ ~ub
    /\ pc[t] = "clear_locked"
    /\ buckets' = [i \in 1..Len(Resize(buckets, N_INITIAL_BUCKETS)) |-> <<>>]
    /\ n_keys' = 0
    /\ pc' = [pc EXCEPT ![t] = "unlock_all"]
    /\ UNCHANGED <<n_buckets, max_load_factor, n_threads, segment_locks,
                   rehashing_segment_locks, rehashing_buckets, op, loc, ret, ub,
                   callers, plan, inserted>>

(***************************************************************************)
(* The planner on its own.                                                 *)
(***************************************************************************)
planner_call ==
    /\ plan.state = "requested"
    /\ LET r == get_n_rehashing_buckets(plan.variant, plan.request)
       IN  plan' = [plan EXCEPT !.state = "returned", !.ok = r.ok, !.n = r.n]
    /\ UNCHANGED <<container, pc, op, loc, ret, ub, callers, inserted>>

(***************************************************************************)
(* The specifications.                                                     *)
(***************************************************************************)
Steps(t) ==
    \/ hash_node_apply_snapshot(t)
    \/ hash_node_apply_set_lock(t)
    \/ hash_node_apply_locked(t)
    \/ hash_node_apply_unset_lock(t)
    \/ load_factor_read(t)
    \/ load_factor_test(t)
    \/ rehash_request(t)
    \/ reserve_plan(t)
    \/ lock_all_segments(t)
    \/ unlock_all_segments(t)
    \/ rehash_locked(t)
    \/ \E i \in 1..Len(buckets) : rehash_move(t, i)
    \/ rehash_install(t)

PointCalls(t) ==
    /\ pc[t] = "idle" /\ t \in callers
    /\ \/ \E k \in Keys, v \in Values : set(t, k, v)
       \/ \E k \in Keys, f \in Callbacks : set_setter(t, k, f)
       \/ \E k \in Keys, f \in Callbacks, d \in DefaultInitialized :
              set_setter_default(t, k, f, d)
       \/ \E k \in Keys : unset(t, k)
       \/ \E k \in Keys : has(t, k)
       \/ \E k \in Keys, d \in Values : get_copy_or_default(t, k, d)
       \/ \E k \in Keys, f \in Callbacks, d \in Values : map(t, k, f, d)
       \/ \E k \in Keys, f \in Callbacks : apply(t, k, f)

\* one caller, every operation
Next ==
    \E t \in Threads :
        \/ PointCalls(t)
        \/ \E m \in ReserveRequests : reserve(t, m)
        \/ \E f \in LoadFactors : set_max_load_factor(t, f)
        \/ clear(t)
        \/ clear_locked(t)
        \/ Steps(t)
        \/ return(t)

Spec == Init /\ [][Next]_vars

\* a fresh container, two workers: each key is inserted once, by whichever worker, and
\* looked up while no insert is running
InitInsert ==
    /\ Constructed(2, {1, 2})
    /\ plan = NoPlan

NextInsert ==
    \E t \in Threads :
        \/ \E k \in InsertKeys : insert_once(t, k, ValueOf(k))
        \/ \E k \in InsertKeys : has_inserted(t, k)
        \/ \E k \in InsertKeys, d \in Values : get_inserted(t, k, d)
        \/ \E f \in LoadFactors : configure(t, f)
        \/ Steps(t)
        \/ return(t)

SpecInsert == InitInsert /\ [][NextInsert]_vars

\* one caller of a container with two workers: inserts, removes, reserve, clear and
\* the bulk traversals
InitBulk ==
    /\ Constructed(2, {1})
    /\ plan = NoPlan

BulkCalls(t) ==
    /\ pc[t] = "idle" /\ t \in callers
    /\ \/ \E fn \in Reducers, d \in Defaults : map_reduce(t, fn, d)
       \/ apply_all(t)

NextBulk ==
    \E t \in Threads :
        \/ \E k \in Keys, v \in Values : set(t, k, v)
        \/ \E k \in Keys : unset(t, k)
        \/ \E m \in ReserveRequests : reserve(t, m)
        \/ \E f \in LoadFactors : set_max_load_factor(t, f)
        \/ clear(t)
        \/ clear_locked(t)
        \/ BulkCalls(t)
        \/ BulkSteps(t)
        \/ Steps(t)
        \/ return(t)

SpecBulk == InitBulk /\ [][NextBulk]_vars

\* a fresh container with the default load factor filled by one caller, each key
\* inserted once and looked up between the inserts
InitSeqGrow ==
    /\ Constructed(1, {1})
    /\ plan = NoPlan

NextSeqGrow ==
    \E t \in Threads :
        \/ \E k \in SeqKeys : insert_once(t, k, ValueOf(k))
        \/ \E k \in SeqKeys : get_inserted(t, k, 0)
        \/ Steps(t)
        \/ return(t)

SpecSeqGrow == InitSeqGrow /\ [][NextSeqGrow]_vars

\* the same container filled past its bucket count by two workers
InitGrow ==
    /\ Constructed(2, {1, 2})
    /\ plan = NoPlan

NextGrow ==
    \E t \in Threads :
        \/ \E k \in GrowthKeys : insert_once(t, k, ValueOf(k))
        \/ has_inserted(t, 0)
        \/ get_inserted(t, 0, 0)
        \/ Steps(t)
        \/ return(t)

SpecGrow == InitGrow /\ [][NextGrow]_vars

\* two callers of one container: inserts and removes of both keys, upserts of one and
\* lookups of the other, reserve and the bulk traversals, every step of one caller
\* interleaved with every step of the other
InitShared ==
    /\ Constructed(1, {1, 2})
    /\ plan = NoPlan

SharedCalls(t) ==
    /\ pc[t] = "idle" /\ t \in callers
    /\ \/ \E k \in SharedKeys : set(t, k, ValueOf(k))
       \/ set_setter(t, 0, "ok")
       \/ \E k \in SharedKeys : unset(t, k)
       \/ has(t, 5)
       \/ reserve(t, ToWide(DIVISION_FACTOR_MAP, N_INITIAL_BUCKETS + 1))
       \/ map_reduce(t, "sum", 0)
       \/ apply_all(t)

NextShared ==
    \E t \in Threads :
        \/ SharedCalls(t)
        \/ configure(t, SharedLoadFactor)
        \/ BulkSteps(t)
        \/ Steps(t)
        \/ return(t)

SpecShared == InitShared /\ [][NextShared]_vars

\* the same callers with clear() among the operations
NextSharedClear ==
    \/ NextShared
    \/ \E t \in Threads : clear(t) \/ clear_locked(t)

SpecSharedClear == InitShared /\ [][NextSharedClear]_vars

\* two callers under a fair scheduler: point accesses with setters that return or
\* throw, reserve, automatic rehashes and clear
FairCalls(t) ==
    /\ pc[t] = "idle" /\ t \in callers
    /\ \/ \E k \in SharedKeys : set(t, k, ValueOf(k))
       \/ \E f \in Callbacks : set_setter(t, 0, f)
       \/ has(t, 5)
       \/ reserve(t, ToWide(DIVISION_FACTOR_MAP, N_INITIAL_BUCKETS + 1))
       \/ clear(t)

NextFair ==
    \E t \in Threads :
        \/ FairCalls(t)
        \/ configure(t, SharedLoadFactor)
        \/ clear_locked(t)
        \/ Steps(t)
        \/ return(t)

\* every thread inside an operation is scheduled again and again, and a thread at
\* omp_set_lock gets a lock that is free again and again
Fairness ==
    \A t \in Threads :
        /\ WF_vars(Steps(t) \/ clear_locked(t) \/ return(t))
        /\ SF_vars(hash_node_apply_set_lock(t))
        /\ SF_vars(lock_all_segments(t))

SpecFair == InitShared /\ [][NextFair]_vars /\ Fairness

\* one caller that sets the load factor of a fresh container and then inserts
NextLoad ==
    \E t \in Threads :
        \/ \E f \in FineLoadFactors : configure(t, f)
        \/ \E k \in InsertKeys : insert_once(t, k, ValueOf(k))
        \/ Steps(t)
        \/ return(t)

SpecLoad == Init /\ [][NextLoad]_vars

\* the planner alone
NextPlanner == planner_call

SpecPlanner == InitPlanner /\ [][NextPlanner]_vars

(***************************************************************************)
(* What a caller observes of a container no operation is running on.       *)
(***************************************************************************)
\* size()
get_n_keys == n_keys

\* bucket_count()
get_n_buckets == n_buckets

\* the bucket point access goes to for key
BucketId(key) == hasher(key) % n_buckets

\* point access to key stays inside the bucket vector
Addressable(key) == BucketId(key) < Len(buckets)

\* what point access finds for key: its value, 0 when its chain has no node for it,
\* -1 when its bucket is outside the vector and nothing defined is found
Found(key) ==
    IF ~Addressable(key) THEN -1
    ELSE LET chain == buckets[BucketId(key) + 1]
             slot == hash_node_apply_recursive(chain, 1, key)
         IN  IF slot <= Len(chain) THEN chain[slot].value ELSE 0

\* thread t is back from the operation named name
Returned(t, name) == pc[t] = "done" /\ op[t].name = name

\* thread t has left the operation named name, in a defined way or not
Left(t, name) == pc[t] \in {"done", "undefined"} /\ op[t].name = name

(***************************************************************************)
(* The claims.                                                             *)
(***************************************************************************)
\* C1: n distinct keys inserted into a fresh container by concurrent workers, with
\* rehashes in between: once every insert has returned size() is n, has(k) is true
\* and get_copy_or_default(k, d) is the value inserted, for every inserted k.
C1_ConcurrentInsertsAllKept ==
    /\ ~ub
    /\ AllReturned =>
           get_n_keys = Cardinality({k \in InsertKeys : inserted[k] # 0})
    /\ \A t \in Threads :
           /\ Returned(t, "has") => ret[t] = [kind |-> "bool", value |-> 1]
           /\ Returned(t, "get_copy_or_default") =>
                  ret[t] = [kind |-> "value", value |-> inserted[op[t].key]]

\* all four keys inserted, the table grown by an automatic rehash, a lookup back
C1_Witness ==
    /\ \A k \in InsertKeys : inserted[k] # 0
    /\ n_buckets > N_INITIAL_BUCKETS
    /\ Returned(1, "get_copy_or_default")
    /\ op[1].key = 10

\* C2: after clear() returns, whatever came before, size() is 0 and for every key k
\* contains(k) is false, the call going to a bucket that exists in the bucket array.
C2_ClearLeavesEmptyAddressable ==
    \A t \in Threads :
        Returned(t, "clear") =>
            /\ get_n_keys = 0
            /\ \A k \in Keys : Addressable(k) /\ Found(k) = 0

\* C3: whenever no rehash and no clear is in the middle of its work, n_buckets is the
\* length of the bucket array.
C3_BucketCountIsArrayLength ==
    (\A t \in Threads :
        pc[t] \in {"idle", "done", "snapshot", "set_lock", "locked", "unset_lock",
                   "load_check", "load_test"})
    => n_buckets = Len(buckets)

\* C4: after clear() returns, bucket_count() is the initial bucket count, whatever it
\* was before; no other operation lowers it.
C4_ClearResetsBucketCount ==
    [][/\ (\A t \in Threads : pc[t] # "clear_locked") => n_buckets' >= n_buckets
       /\ \A t \in Threads :
              (pc'[t] = "done" /\ op'[t].name = "clear")
              => get_n_buckets' = N_INITIAL_BUCKETS]_vars

\* C5: the planner returns, for every request it accepts, a count that is at least the
\* request, in the map and in the set, also for requests above the last table entry.
C5_PlannerCoversRequest ==
    (plan.state = "returned" /\ plan.ok) => WideLeq(plan.request, plan.n)

\* the requests the map's planner cannot represent
Unrepresentable(m) == WideLeq(TooLargeRequest, m)

\* C6: reserve(m) with an m the planner cannot represent ends in CapacityExceeded, and
\* no step from its call to its return changes the container (entries, n_keys,
\* n_buckets) or takes a segment lock: the call leaves no lock held.
C6_FailedReserveChangesNothing ==
    [][\A t \in Threads :
          (op'[t].name = "reserve" /\ Unrepresentable(op'[t].m))
          => /\ pc'[t] \in {"reserve", "done"}
             /\ pc'[t] = "done" => ret'[t] = CapacityExceeded
             /\ <<buckets, n_keys, n_buckets, max_load_factor>>' =
                    <<buckets, n_keys, n_buckets, max_load_factor>>
             /\ segment_locks' = segment_locks
             /\ rehashing_segment_locks' = rehashing_segment_locks]_vars

\* a failed reserve on a container that holds keys and has grown
C6_Witness ==
    /\ Returned(1, "reserve")
    /\ ret[1] = CapacityExceeded
    /\ n_keys > 0
    /\ n_buckets > N_INITIAL_BUCKETS

\* C7: when the user's setter, mapper or handler fails inside a point access, the
\* failure leaves the operation with the segment lock released.
C7_FailureReleasesLock ==
    \A t \in Threads :
        (pc[t] = "done" /\ ret[t] = HandlerFailure)
        => \A s \in DOMAIN segment_locks : segment_locks[s] # t

\* C8: when insert(k, v) has returned, a lookup of k finds v; an insert of a present
\* key leaves size() as it was and an insert of an absent key adds one to it.
C8_InsertThenGet ==
    [][\A t \in Threads :
          (pc[t] = "locked" /\ op[t].name = "set" /\ pc'[t] \notin {"locked", "snapshot"})
          => /\ Found(op[t].key)' = op[t].value
             /\ get_n_keys' = get_n_keys + (IF Stored(op[t].key) = 0 THEN 1 ELSE 0)]_vars

\* C9: a lookup of a key that is in no chain gives the default (get_copy_or_default
\* and map) or false (has).
C9_AbsentKeyGivesDefault ==
    \A t \in Threads :
        (/\ Stored(op[t].key) = 0
         /\ \/ Left(t, "has")
            \/ Left(t, "get_copy_or_default")
            \/ Left(t, "map"))
        => ret[t] = IF op[t].name = "has" THEN [kind |-> "bool", value |-> 0]
                    ELSE [kind |-> "value", value |-> op[t].value]

\* C10: remove(k) of a present key makes k absent and takes one from size(), of an
\* absent key changes nothing; every other key keeps its value and bucket_count()
\* stays, without any access outside the bucket array.
C10_RemoveOnlyThatKey ==
    [][\A t \in Threads :
          (pc[t] = "locked" /\ op[t].name = "unset" /\ pc'[t] \notin {"locked", "snapshot"})
          => /\ ~ub'
             /\ Stored(op[t].key)' = 0
             /\ get_n_keys' = get_n_keys - (IF Stored(op[t].key) = 0 THEN 0 ELSE 1)
             /\ \A k \in Keys \ {op[t].key} : Stored(k)' = Stored(k)
             /\ get_n_buckets' = get_n_buckets]_vars

\* C11: upsert(k, f) of a fresh key stores f of the default-constructed value (int():
\* 0) in the two-argument form and f of the caller's default in the three-argument
\* form, and adds one to size(); of a present key it stores f of the stored value,
\* whatever the default, and leaves size().
C11_UpsertAppliesMutator ==
    [][\A t \in Threads :
          (/\ pc[t] = "locked"
           /\ op[t].name \in {"set_setter", "set_setter_default"}
           /\ op[t].fn = "ok"
           /\ pc'[t] \notin {"locked", "snapshot"})
          => IF Stored(op[t].key) = 0
             THEN /\ Found(op[t].key)' =
                         setter(IF op[t].name = "set_setter" THEN 0 ELSE op[t].value)
                  /\ get_n_keys' = get_n_keys + 1
             ELSE /\ Found(op[t].key)' = setter(Stored(op[t].key))
                  /\ get_n_keys' = get_n_keys]_vars

\* the keys that have a node in the table
LiveKeys == {k \in Keys : Stored(k) # 0}

RECURSIVE ReductionOver(_, _, _)
\* the reduction of the mapped entries of the keys ks, from acc on
ReductionOver(fn, ks, acc) ==
    IF ks = {} THEN acc
    ELSE LET k == CHOOSE x \in ks : TRUE
         IN  ReductionOver(fn, ks \ {k}, reducer(fn, acc, value_mapper(k, Stored(k))))

\* a default that is neutral for the reducer on the values the mapper gives (all >= 1)
IsIdentity(fn, d) == d = 0 /\ fn \in {"sum", "max"}

\* C12: map_reduce with an associative, commutative reducer and its identity as the
\* default, no other operation running, returns the reduction of the mapped entries,
\* each entry once, whichever worker walks which bucket.
C12_MapReduceReducesEveryEntry ==
    \A t \in Threads :
        (Left(t, "map_reduce") /\ IsIdentity(op[t].fn, op[t].value))
        => /\ pc[t] = "done"
           /\ ret[t] = [kind |-> "value",
                        value |-> ReductionOver(op[t].fn, LiveKeys, op[t].value)]

\* C13: map_reduce on a container without keys returns the default value, for every
\* reducer and every default value.
C13_EmptyMapReduceGivesDefault ==
    \A t \in Threads :
        (Left(t, "map_reduce") /\ get_n_keys = 0 /\ LiveKeys = {})
        => ret[t] = [kind |-> "value", value |-> op[t].value]

\* C14: apply(handler) with no other operation running calls the handler once for each
\* entry of the container, size() times in all.
C14_ApplyAllVisitsEachEntryOnce ==
    \A t \in Threads :
        Left(t, "apply_all")
        => /\ pc[t] = "done"
           /\ Len(loc[t].calls) = get_n_keys
           /\ \A k \in Keys :
                  Cardinality({j \in 1..Len(loc[t].calls) : loc[t].calls[j] = k})
                      = IF k \in LiveKeys THEN 1 ELSE 0

\* the keys an insert was issued for
IssuedKeys == {k \in DOMAIN inserted : inserted[k] # 0}

\* no caller is inside an operation
Quiet == \A t \in callers : pc[t] \in {"idle", "done"}

C17_ReserveTakesTheLarger ==
    [][\A t \in Threads :
           (op[t].name = "reserve" /\ pc[t] \in {"rehash_locked", "rehash_move"})
           => /\ pc'[t] # "undefined"
              /\ pc'[t] = "unlock_all"
                 => n_buckets' = IF n_buckets >= loc[t].n_rehashing_buckets
                                 THEN n_buckets
                                 ELSE loc[t].n_rehashing_buckets]_vars

\* the planner returns n for some request: it does for the request n itself
Planned(n) ==
    LET r == get_n_rehashing_buckets("map", ToWide(DIVISION_FACTOR_MAP, n))
    IN  r.ok /\ WideToInt(DIVISION_FACTOR_MAP, r.n) = n

\* C18: while no clear is called, whatever inserts, upserts, removes, reserves, lookups
\* and bulk traversals the callers interleave, n_buckets never decreases and is always
\* the initial bucket count or a value the capacity planner returns.
C18_BucketCountOnlyGrows ==
    [][/\ n_buckets' >= n_buckets
       /\ n_buckets' = N_INITIAL_BUCKETS \/ Planned(n_buckets')]_vars

\* the table has grown under two callers, one of them in a bulk traversal
C18_Witness ==
    /\ n_buckets > N_INITIAL_BUCKETS
    /\ n_buckets = Len(buckets)
    /\ n_keys > 0
    /\ \E t \in Threads : op[t].name \in BulkOps /\ pc[t] = "done"

\* the segment of the bucket a point access works on
SegmentOf(t) == loc[t].bucket_id % n_segments

\* the thread is between acquiring and releasing all the segment locks
HoldsAll(t) == pc[t] \in {"bulk_locked", "rehash_locked", "rehash_move", "clear_locked"}

\* C20: at most one point-access handler runs on the buckets of a segment at a time,
\* and none runs while a bulk traversal, a rehash or a clear holds all the segment
\* locks.
C20_HandlersExcludeEachOther ==
    \A t \in Threads :
        pc[t] = "locked"
        => \A u \in Threads \ {t} :
               /\ pc[u] = "locked" => SegmentOf(u) # SegmentOf(t)
               /\ ~HoldsAll(u)

\* both callers in a handler at once, on different segments
C20_Witness ==
    /\ pc[1] = "locked"
    /\ pc[2] = "locked"
    /\ SegmentOf(1) # SegmentOf(2)

\* a caller waits for a segment lock while the other holds them all
C20_WitnessBulk ==
    \E t, u \in Threads :
        /\ pc[t] = "set_lock"
        /\ HoldsAll(u)
        /\ op[u].name \in BulkOps \cup {"clear"}

\* the segment lock the thread is about to take
Awaited(t) == IF pc[t] = "set_lock" THEN SegmentOf(t) ELSE loc[t].i

\* the thread is at omp_set_lock on a lock that is held
Waiting(t) == pc[t] \in {"set_lock", "lock_all"} /\ segment_locks[Awaited(t)] # 0

Holder(t) == segment_locks[Awaited(t)]

\* C19: no deadlock is reached by point accesses, bulk traversals, reserve, rehashes
\* and clear whose handlers terminate and do not call back: a thread that waits for a
\* segment lock waits for another thread that is inside an operation, and that thread
\* does not wait for a lock of the first.
C19_NoDeadlock ==
    ~ub => \A t \in Threads :
               Waiting(t)
               => /\ Holder(t) # t
                  /\ pc[Holder(t)] \notin {"idle", "done"}
                  /\ Waiting(Holder(t)) => Holder(Holder(t)) # t

\* what a point access at its handler call does, told from the step
HandlerCall(t) ==
    /\ segment_locks[SegmentOf(t)] = t
    /\ IF loc[t].n_buckets_snapshot # n_buckets
       THEN /\ pc'[t] = "snapshot"
            /\ segment_locks'[SegmentOf(t)] = 0
            /\ buckets' = buckets
            /\ n_keys' = n_keys
            /\ ret'[t] = ret[t]
       ELSE /\ loc[t].bucket_id = hasher(op[t].key) % n_buckets
            /\ loc[t].bucket_id < Len(buckets)
            /\ pc'[t] # "undefined"
            /\ Len(buckets') = Len(buckets)
            /\ \A i \in 1..Len(buckets) :
                   i # loc[t].bucket_id + 1 => buckets'[i] = buckets[i]

\* C21: a point-access handler is invoked on bucket hash(key) mod n_buckets of the
\* bucket array current at that moment, the caller holding the lock of that bucket's
\* segment; when n_buckets has changed since the snapshot the lock is released and the
\* lookup restarts, the handler not invoked.
C21_HandlerOnCurrentBucket ==
    [][\A t \in Threads : (pc[t] = "locked" /\ pc'[t] # "locked") => HandlerCall(t)]_vars

\* the places of a bucket vector that hold a node: <<bucket (from 1), depth in the chain>>
Positions(bs) == UNION {{<<i, j>> : j \in 1..Len(bs[i])} : i \in 1..Len(bs)}

\* how often the entry e is linked in the bucket vector
Copies(bs, e) == Cardinality({p \in Positions(bs) : bs[p[1]][p[2]] = e})

\* the entries linked in the old and in the new vector of a rehash
Linked == {buckets[p[1]][p[2]] : p \in Positions(buckets)}
              \cup {rehashing_buckets[p[1]][p[2]] : p \in Positions(rehashing_buckets)}

Total(e) == Copies(buckets, e) + Copies(rehashing_buckets, e)

\* C22: a rehash to a larger bucket count keeps the content: through every step of it
\* no entry is lost or duplicated and n_keys stays, and when it completes every
\* entry lies in bucket hash(key) mod n' of the new vector, whatever the chain
\* lengths and the order in which the workers move the nodes.
C22_RehashKeepsContent ==
    [][\A t \in Threads :
           pc[t] \in {"rehash_locked", "rehash_move"}
           => /\ pc'[t] # "undefined"
              /\ n_keys' = n_keys
              /\ \A e \in Linked \cup Linked' : Total(e)' = Total(e)
              /\ pc'[t] = "unlock_all"
                 => /\ rehashing_buckets' = <<>>
                    /\ \A p \in Positions(buckets') :
                           hasher(buckets'[p[1]][p[2]].key) % n_buckets' = p[1] - 1]_vars

\* the places of the bucket vector where a node with this key is linked
PlacesOf(key) == {p \in Positions(buckets) : buckets[p[1]][p[2]].key = key}

KeyCopies(key) ==
    Cardinality({p \in Positions(buckets) : buckets[p[1]][p[2]].key = key})
    + Cardinality({p \in Positions(rehashing_buckets) :
                       rehashing_buckets[p[1]][p[2]].key = key})

PointOps == SetOps \cup {"unset", "has", "get_copy_or_default", "map", "apply"}

\* C26: under fair scheduling every started point access returns: one that waits for
\* a segment lock goes on when the lock is released, one that finds the bucket count
\* changed takes a new snapshot and completes.
C26_PointAccessReturns ==
    \A t \in Threads :
        (op[t].name \in PointOps /\ pc[t] = "snapshot")
        ~> (op[t].name \in PointOps /\ pc[t] \in {"unset_lock", "done"})

RECURSIVE RootBound(_, _)
\* a number whose square is not below n, found by doubling; 46340 is the largest
\* root of a 32-bit integer
RootBound(n, r) ==
    IF r >= 32768 THEN 46340
    ELSE IF r * r >= n THEN r
    ELSE RootBound(n, 2 * r)

IsPrime(n) == n > 1 /\ \A d \in 2..RootBound(n, 2) : d * d > n \/ n % d # 0

\* the table holds prime numbers in increasing order
SortedPrimes(primes) ==
    /\ \A i \in 1..Len(primes) : IsPrime(primes[i])
    /\ \A i \in 1..(Len(primes) - 1) : primes[i] < primes[i + 1]

SortedPrimesMap == SortedPrimes(PRIME_NUMBERS_MAP)

SortedPrimesSet == SortedPrimes(PRIME_NUMBERS_SET)

\* the planner's answer for m is the smallest table entry that is at least m
SmallestEntry(variant, m, c) ==
    /\ \E i \in 1..N_PRIME_NUMBERS(variant) : PRIME_NUMBERS(variant)[i] = c
    /\ c >= m
    /\ \A i \in 1..N_PRIME_NUMBERS(variant) :
           PRIME_NUMBERS(variant)[i] >= m => PRIME_NUMBERS(variant)[i] >= c

\* C27: for a request m not above the last table entry the planner returns the
\* smallest table entry that is at least m, and the table it draws from, the map's and
\* the set's, lists prime numbers in increasing order.
C27_PlannerPicksSmallestPrime ==
    (/\ plan.state = "returned"
     /\ WideLeq(plan.request,
                ToWide(DIVISION_FACTOR(plan.variant), LAST_PRIME_NUMBER(plan.variant))))
    => /\ plan.ok
       /\ SmallestEntry(plan.variant,
                        WideToInt(DIVISION_FACTOR(plan.variant), plan.request),
                        WideToInt(DIVISION_FACTOR(plan.variant), plan.n))
       /\ IF plan.variant = "map" THEN SortedPrimesMap ELSE SortedPrimesSet

\* C28: with a positive max_load_factor set before the first insert and left alone,
\* after an insert has completed and nothing else runs the load factor is not above
\* the maximum: size() <= bucket_count() * max_load_factor.
C28_LoadStaysUnderMaximum ==
    (Quiet /\ IssuedKeys # {})
    => n_keys * max_load_factor[2] <= n_buckets * max_load_factor[1]

\* the point accesses that only look
ObserverOps == {"has", "get_copy_or_default", "map", "apply"}

\* C29: has, get_copy_or_default, map and apply(key, handler) leave the container as
\* it is, for present and for absent keys: no step of theirs links, removes or changes
\* an entry, and n_keys and n_buckets keep their values.
C29_ObserversChangeNothing ==
    [][\A t \in Threads :
           (op[t].name \in ObserverOps /\ pc[t] # pc'[t] /\ pc[t] # "idle")
           => <<buckets, n_keys, n_buckets>>' = <<buckets, n_keys, n_buckets>>]_vars

\* the caller is back from a lookup of a key that is not stored, in a chain that
\* holds another key
C29_Witness ==
    /\ \E name \in ObserverOps : Returned(1, name)
    /\ Stored(op[1].key) = 0
    /\ Addressable(op[1].key)
    /\ buckets[BucketId(op[1].key) + 1] # <<>>

=============================================================================
